---- MODULE Spec2Model ----
(***************************************************************************)
(* Fleet synchronisation of Paragon TV: the two standalone scripts         *)
(*   resources/lib/ptv_push_to_satellites.py   (settings2.xml + cache)     *)
(*   resources/lib/ptv_satellite_alignment.py  (whole addon bundles)       *)
(* Each script reads the add-on settings, checks its local sources and     *)
(* then walks the configured satellites one after another, running ssh,    *)
(* scp and rsync through subprocess.call.  Every subprocess.call is one    *)
(* step of the model; its exit status (or the exception it raises) is an   *)
(* input of that step.                                                     *)
(***************************************************************************)
EXTENDS Integers, Sequences, FiniteSets, TLC

\* ------------------------------------------------------------------ bounds
MaxNodes == 3          \* at most this many SlaveIP slots are filled
MaxFaults == 2         \* subprocess calls of a run that do not exit 0
MaxRuns == 2           \* how many times the script is started in a row
MaxEnvChanges == 1     \* local environment changes while a run is going on
MaxEpisodes == 2       \* length of all_episodes
MaxPlayed == 2         \* length of a played_episodes list at the start
MaxCycles == 2         \* times_cycled of a show at the start

\* ------------------------------------------------------- program constants
MaxSatellites == 5     \* for i in range(1, 6)

Slots == 1..MaxSatellites

\* The address stored in slot i when the slot is filled.
Address == <<"10.0.0.1", "10.0.0.2", "10.0.0.3", "10.0.0.4", "10.0.0.5">>

Addresses == {Address[i] : i \in Slots}

\* ADDONS_TO_PUSH, the names in list order.
ADDONS_TO_PUSH == <<"script.paragontv", "script.paragon">>

AddonNames == {ADDONS_TO_PUSH[k] : k \in 1..Len(ADDONS_TO_PUSH)}

Modes == {"push_to_satellites", "satellite_alignment"}

\* ------------------------------------------------------------- file trees
\* A remote path is a sequence of names below /storage/.kodi.
RemoteData == <<"userdata", "addon_data", "script.paragontv">>

RemoteAddons == <<"addons">>

\* Files of the local cache folder and of each local addon folder at the
\* start; a local tree is [exists, files].
CacheFiles == {"channel_1.m3u", "channel_2.m3u"}

AddonFiles == [a \in AddonNames |->
                 IF a = "script.paragontv" THEN {"addon.xml", "default.py"}
                                           ELSE {"addon.xml", "skin.xml"}]

Absent == [exists |-> FALSE, files |-> {}]

Tree(fs) == [exists |-> TRUE, files |-> fs]

\* What a satellite holds before the first run: an older copy of everything.
InitialRemote ==
    {RemoteData \o <<"settings2.xml">>,
     RemoteData \o <<"cache">>,
     RemoteData \o <<"cache", "old.m3u">>}
    \cup {RemoteAddons \o <<a>> : a \in AddonNames}
    \cup {RemoteAddons \o <<a, "old.py">> : a \in AddonNames}
    \cup {RemoteAddons \o <<"skin.estuary">>,
          RemoteAddons \o <<"skin.estuary", "addon.xml">>}

IsUnder(p, dir) == Len(p) > Len(dir) /\ SubSeq(p, 1, Len(dir)) = dir

Under(dir, fs) == {p \in fs : IsUnder(p, dir)}

\* mkdir -p path
MkdirP(path, fs) == fs \cup {SubSeq(path, 1, k) : k \in 1..Len(path)}

\* An rm -rf that removes nothing.
RmNothing(path, fs) == fs

\* rm -rf path
RmRf(path, fs) == fs \ ({path} \cup Under(path, fs))

\* scp file dest/ : the file lands in dest under its own name.
ScpFile(name, dest, fs) == fs \cup {dest \o <<name>>}

\* scp -r src/ dest/ : the directory lands in dest under its base name,
\* files already there and not in the source are left alone.
ScpRecursive(base, files, dest, fs) ==
    fs \cup {dest \o <<base>>} \cup {dest \o <<base, f>> : f \in files}

\* rsync without --delete.
RsyncKeep(files, dest, fs) == fs \cup {dest \o <<f>> : f \in files}

\* rsync -az --delete src/ dest/ : the source path ends in a slash, so the
\* CONTENTS of src are synchronised into dest itself, and everything in dest
\* that is not in src is deleted.
RsyncDelete(files, dest, fs) ==
    (fs \ Under(dest, fs)) \cup {dest \o <<f>> : f \in files}

\* ------------------------------------------------------------------ state
VARIABLES
    mode,           \* which script is run
    setting,        \* ADDON settings: [Enable, SlaveIP]
    rsync,          \* local environment: `which rsync` exits 0
    localFS,        \* local sources: [settings2, cache, addons]
    remoteFS,       \* per address, the set of paths on that satellite
    pc,             \* position in the script
    satellite_ips,  \* the list built from the slots
    idx,            \* position of the for loop in satellite_ips
    addon_idx,      \* position of the inner loop in ADDONS_TO_PUSH
    success_count,
    use_rsync,      \* use_rsync (alignment) / rsync_check == 0 (push)
    all_pushed,
    ret,            \* return value of the script: "none" while running
    log,            \* subprocess calls of the node in hand, in order
    counted,        \* success_count was incremented for the node in hand
    outcomes,       \* one record per node whose iteration has ended
    checks,         \* every `which rsync`: nodes probed before it, result
    notes,          \* notify() calls of the run, in order
    ips_read,       \* how often the SlaveIP slots were read in the run
    sent,           \* per address and unit: the last successful transfer
    runs,           \* runs started so far
    envChanges,     \* environment changes so far
    faults,         \* calls of the run that failed or raised so far
    twin,           \* a node's record of the previous run, or NoTwin
    workers,        \* per node, the loop body run by a worker of its own
    history,        \* an EpisodeHistory object: loaded, data["shows"], its file
    call            \* the last call of get_available_episodes and its result

cfgVars == <<mode, setting>>

envVars == <<rsync, localFS>>

loopVars == <<satellite_ips, idx, addon_idx, success_count, use_rsync, all_pushed>>

histVars == <<log, counted, outcomes, checks, notes, ips_read, sent>>

ledgerVars == <<history, call>>

budgetVars == <<runs, envChanges, twin, workers, ledgerVars>>

vars == <<mode, setting, rsync, localFS, remoteFS, pc, satellite_ips, idx,
          addon_idx, success_count, use_rsync, all_pushed, ret, log, counted,
          outcomes, checks, notes, ips_read, sent, runs, envChanges, faults,
          twin, workers, history, call>>

NoTwin == [ip |-> "", log |-> <<>>, counted |-> FALSE, others |-> 0]

\* ------------------------------------------------------------- subprocess
\* subprocess.call of ssh, scp or rsync returns 0, returns non-zero, or
\* raises (the child could not be started); a call that raised issued no
\* command.  `which` is a local lookup: found or not found.
Results == {"ok", "fail", "raise"}

Units(m) == IF m = "push_to_satellites" THEN <<"settings2.xml", "cache">>
                                        ELSE ADDONS_TO_PUSH

TransferCmds == {"rsync", "scp"}

RemoteCmds == {"probe", "mkdir", "rm", "notify", "restart"} \cup TransferCmds

Entry(ip, cmd, unit, res) == [ip |-> ip, cmd |-> cmd, unit |-> unit, res |-> res]

\* notify(msg): the message and the numbers formatted into it.
Note(msg, args) == [msg |-> msg, args |-> args]

\* The results a call may have.  In a twin run the node under observation
\* is given the results it had in the previous run.
Outcomes(l, ip, cmd, unit) ==
    LET k == Len(l) + 1 IN
    IF /\ twin.ip = ip
       /\ k <= Len(twin.log)
       /\ twin.log[k].cmd = cmd
       /\ twin.log[k].unit = unit
    THEN {twin.log[k].res}
    ELSE IF faults < MaxFaults THEN Results ELSE {"ok"}

Charge(res) == IF res = "ok" THEN faults ELSE faults + 1

Issued(l) == SelectSeq(l, LAMBDA e : e.res # "raise")

Count(l, cmd) == Len(SelectSeq(l, LAMBDA e : e.cmd = cmd /\ e.res # "raise"))

\* The record kept of a node when its iteration ends.
Summarize(ip, l, cnt) ==
    [ip        |-> ip,
     reachable |-> \E k \in 1..Len(l) : l[k].cmd = "probe" /\ l[k].res = "ok",
     counted   |-> cnt,
     failed    |-> \E k \in 1..Len(l) : l[k].cmd \in TransferCmds /\ l[k].res = "fail",
     raised    |-> \E k \in 1..Len(l) : l[k].res = "raise",
     restarts  |-> Count(l, "restart"),
     ncmds     |-> Len(Issued(l)),
     probes    |-> Len(SelectSeq(l, LAMBDA e : e.cmd = "probe")),
     called    |-> {l[k].cmd : k \in 1..Len(l)},
     transferred |-> {l[k].unit : k \in {j \in 1..Len(l) :
                         l[j].cmd \in TransferCmds /\ l[j].res = "ok"}},
     tools     |-> {l[k].cmd : k \in {j \in 1..Len(l) :
                         /\ l[j].cmd \in TransferCmds
                         /\ l[j].unit # "settings2.xml"
                         /\ l[j].res # "raise"}}]

\* -------------------------------------------------------------- decisions
\* A probe that is taken for a success although it failed.
ConnectedAlways(res) == TRUE

\* if result != 0: continue     (after the probe)
Connected(res) == res = "ok"

\* A transfer that is taken for a success although it failed.
SucceededAlways(res) == res # "raise"

\* if result == 0: ...           (after a transfer)
Succeeded(res) == res = "ok"

\* The enable flag is not looked at.
IsEnabledAlways(s) == TRUE

\* ADDON.getSetting("EnableMasterPush" / "EnableSatelliteAlignment") == "true"
IsEnabled(s) == s.Enable

\* The cache folder is not looked at.
SourcesPresentLax(m, fs) ==
    IF m = "push_to_satellites"
    THEN fs.settings2
    ELSE \E a \in AddonNames : fs.addons[a].exists

\* push_to_satellites: os.path.exists(settings2_path) and os.path.exists(cache_path)
\* satellite_alignment: available_addons is not empty
SourcesPresent(m, fs) ==
    IF m = "push_to_satellites"
    THEN fs.settings2 /\ fs.cache.exists
    ELSE \E a \in AddonNames : fs.addons[a].exists

\* The run counts as a success only when every node was counted.
FleetSuccessAll(n) == n > 0 /\ n = Len(satellite_ips)

\* "Updated 0 satellite(s)" when no node was counted.
SummaryNoteUpdated(n) == Note("Updated satellite(s)", <<n>>)

\* if success_count > 0: notify("Updated {} satellite(s)".format(success_count), ...)
\* else: notify("Failed to update satellites", ...)
SummaryNote(n) ==
    IF n > 0 THEN Note("Updated satellite(s)", <<n>>)
             ELSE Note("Failed to update", <<>>)

\* Every run that reaches the summary returns True.
FleetSuccessAlways(n) == TRUE

\* return success_count > 0
FleetSuccess(n) == n > 0

\* The exit status of the call is looked at, and a non-zero one ends the
\* iteration of the node.
ReturnedZero(res) == res = "ok"

\* subprocess.call(cmd) whose result is not assigned: the script goes on
\* whenever the call returned.
Returned(res) == res # "raise"

\* all_pushed is left as the node before left it.
StaleAllPushed(ap) == ap

\* all_pushed = True             (per node, after the probe)
FreshAllPushed(ap) == TRUE

\* Only the push in hand decides.
AllPushedLast(ap, pushed) == pushed

\* if not push_addon_to_satellite(...): all_pushed = False
AllPushed(ap, pushed) == ap /\ pushed

\* -------------------------------------------------------- EpisodeHistory
\* self.data["shows"] after __init__: no show is tracked.
NoShows == <<>>

\* The history file of the channel: "missing", "corrupt" (json.load raises),
\* "nodir" (the history directory cannot be created) or "ok" with its shows.
NoFile == [state |-> "missing", shows |-> NoShows]

\* EpisodeHistory.__init__
NoHistory == [loaded |-> FALSE, shows |-> NoShows, file |-> NoFile]

NoCall == [show_name |-> "", all_episodes |-> <<>>, available |-> <<>>,
           before |-> NoShows, exhausted |-> FALSE, made |-> FALSE]

\* ------------------------------------------------------------------- Init
SlotChoices ==
    {s \in [Slots -> {""} \cup Addresses] :
        /\ \A i \in Slots : s[i] \in {"", Address[i]}
        /\ Cardinality({i \in Slots : s[i] # ""}) <= MaxNodes}

\* Only the sources the script in hand looks at are varied.
LocalChoices(m) ==
    IF m = "push_to_satellites"
    THEN {[settings2 |-> b, cache |-> c, addons |-> [a \in AddonNames |-> Tree(AddonFiles[a])]] :
             b \in BOOLEAN, c \in {Absent, Tree(CacheFiles)}}
    ELSE {[settings2 |-> TRUE, cache |-> Tree(CacheFiles), addons |-> ad] :
             ad \in {f \in [AddonNames -> {Absent} \cup {Tree(AddonFiles[a]) : a \in AddonNames}] :
                        \A a \in AddonNames : f[a] \in {Absent, Tree(AddonFiles[a])}}}

NoSent == [a \in Addresses |-> [u \in {"cache"} \cup AddonNames |-> [how |-> "none", files |-> {}, stale |-> {}, wiped |-> FALSE, gone |-> FALSE]]]

RunStart ==
    /\ pc = "enabled"
    /\ satellite_ips = <<>>
    /\ idx = 1
    /\ addon_idx = 1
    /\ success_count = 0
    /\ use_rsync = FALSE
    /\ all_pushed = TRUE
    /\ ret = "none"
    /\ log = <<>>
    /\ counted = FALSE
    /\ outcomes = <<>>
    /\ checks = <<>>
    /\ notes = <<>>
    /\ ips_read = 0
    /\ faults = 0

Init ==
    /\ mode \in Modes
    /\ setting \in [Enable : BOOLEAN, SlaveIP : SlotChoices]
    /\ rsync \in BOOLEAN
    /\ localFS \in LocalChoices(mode)
    /\ remoteFS = [a \in Addresses |-> InitialRemote]
    /\ RunStart
    /\ sent = NoSent
    /\ runs = 1
    /\ envChanges = 0
    /\ twin = NoTwin
    /\ workers = <<>>
    /\ history = NoHistory
    /\ call = NoCall

\* --------------------------------------------------------------- preamble
\* if ADDON.getSetting("Enable...") != "true": return False
CheckEnabled ==
    /\ pc = "enabled"
    /\ IF IsEnabled(setting)
       THEN pc' = "nodes" /\ ret' = ret
       ELSE pc' = "done" /\ ret' = "False"
    /\ UNCHANGED <<cfgVars, envVars, remoteFS, loopVars, histVars, budgetVars, faults>>

\* The slots are read up to the first empty one.
ListIPsUntilGap(slaveIP) ==
    LET RECURSIVE Collect(_)
        Collect(i) == IF i > MaxSatellites \/ slaveIP[i] = "" THEN <<>>
                      ELSE <<slaveIP[i]>> \o Collect(i + 1)
    IN Collect(1)

\* for i in range(1, 6): if satellite_ip: satellite_ips.append(satellite_ip)
ListIPs(slaveIP) ==
    LET RECURSIVE Collect(_)
        Collect(i) == IF i > MaxSatellites THEN <<>>
                      ELSE IF slaveIP[i] # "" THEN <<slaveIP[i]>> \o Collect(i + 1)
                      ELSE Collect(i + 1)
    IN Collect(1)

ReadNodes ==
    /\ pc = "nodes"
    /\ satellite_ips' = ListIPs(setting.SlaveIP)
    /\ ips_read' = ips_read + 1
    /\ IF satellite_ips' = <<>>
       THEN /\ notes' = Append(notes, Note("No satellites configured", <<>>))
            /\ pc' = "done"
            /\ ret' = "False"
       ELSE /\ notes' = notes
            /\ pc' = "sources"
            /\ ret' = ret
    /\ UNCHANGED <<cfgVars, envVars, remoteFS, idx, addon_idx, success_count,
                   use_rsync, all_pushed, log, counted, outcomes, checks, sent,
                   budgetVars, faults>>

\* push_to_satellites: settings2.xml and the cache folder must both exist.
\* satellite_alignment: at least one addon path must exist.
CheckSources ==
    /\ pc = "sources"
    /\ IF ~SourcesPresent(mode, localFS)
       THEN /\ notes' = Append(notes, Note(
                    IF mode = "satellite_alignment" THEN "No addon paths found"
                    ELSE IF ~localFS.settings2 THEN "settings2.xml not found"
                    ELSE "cache folder not found", <<>>))
            /\ pc' = "done"
            /\ ret' = "False"
       ELSE /\ notes' = Append(notes, Note(
                    IF mode = "push_to_satellites" THEN "Pushing to satellite(s)"
                                                   ELSE "Aligning satellite(s)",
                    <<Len(satellite_ips)>>))
            /\ pc' = IF mode = "push_to_satellites" THEN "probe" ELSE "strategy"
            /\ ret' = ret
    /\ UNCHANGED <<cfgVars, envVars, remoteFS, loopVars, log, counted, outcomes,
                   checks, ips_read, sent, budgetVars, faults>>

\* ---------------------------------------------------------------- helpers
Cur == satellite_ips[idx]

\* A transfer whose local source is gone cannot exit 0.
SourceOutcomes(exists, l, ip, cmd, unit) ==
    IF exists THEN Outcomes(l, ip, cmd, unit)
              ELSE (Outcomes(l, ip, cmd, unit) \ {"ok"}) \cup {"fail"}

\* A node that was not counted is tried again.
EndNodeRetry(l, cnt) ==
    /\ outcomes' = Append(outcomes, Summarize(Cur, l, cnt))
    /\ idx' = IF cnt THEN idx + 1 ELSE idx
    /\ pc' = IF idx' > Len(satellite_ips) THEN "summary" ELSE "probe"

\* break instead of continue: a node that was not counted ends the loop.
EndNodeBreak(l, cnt) ==
    /\ outcomes' = Append(outcomes, Summarize(Cur, l, cnt))
    /\ idx' = idx + 1
    /\ pc' = IF idx + 1 > Len(satellite_ips) \/ ~cnt THEN "summary" ELSE "probe"

\* The iteration of the node in hand ends (fall through, continue, or the
\* except clause): the for loop moves to the next address or ends.
EndNode(l, cnt) ==
    /\ outcomes' = Append(outcomes, Summarize(Cur, l, cnt))
    /\ idx' = idx + 1
    /\ pc' = IF idx + 1 > Len(satellite_ips) THEN "summary" ELSE "probe"

\* What is remembered of a successful transfer of a tree: the tool, the
\* files sent, the files sent the time before with the same tool that the
\* source no longer has, and whether the folder on the satellite was removed
\* (rm -rf, exit 0) between that time and this transfer.
Remember(ip, unit, how, files) ==
    LET old == sent[ip][unit] IN
    [sent EXCEPT ![ip][unit] =
        [how |-> how, files |-> files,
         stale |-> IF old.how = how THEN old.files \ files ELSE {},
         wiped |-> FALSE, gone |-> old.wiped]]

\* ------------------------------------------------------------- both loops
\* ssh -o ConnectTimeout=5 -o BatchMode=yes root@ip 'echo "connected"'
\* if result != 0: continue
Probe ==
    /\ pc = "probe"
    /\ \E res \in Outcomes(<<>>, Cur, "probe", "") :
         /\ faults' = Charge(res)
         /\ log' = <<Entry(Cur, "probe", "", res)>>
         /\ counted' = FALSE
         /\ IF res # "raise" /\ Connected(res)
            THEN /\ pc' = IF mode = "push_to_satellites" THEN "mkdir" ELSE "addon"
                 /\ all_pushed' = IF mode = "push_to_satellites" THEN all_pushed
                                  ELSE FreshAllPushed(all_pushed)
                 /\ addon_idx' = 1
                 /\ UNCHANGED <<idx, outcomes>>
            ELSE /\ EndNode(log', FALSE)
                 /\ UNCHANGED <<all_pushed, addon_idx>>
    /\ UNCHANGED <<cfgVars, envVars, remoteFS, satellite_ips, success_count,
                   use_rsync, ret, checks, notes, ips_read, sent, budgetVars>>

\* log(... "satellites updated"); notify(...); return success_count > 0
Summary ==
    /\ pc = "summary"
    /\ notes' = Append(notes, SummaryNote(success_count))
    /\ ret' = IF FleetSuccess(success_count) THEN "True" ELSE "False"
    /\ pc' = "done"
    /\ UNCHANGED <<cfgVars, envVars, remoteFS, loopVars, log, counted, outcomes,
                   checks, ips_read, sent, budgetVars, faults>>

\* ----------------------------------------------------- push_to_satellites
\* ssh root@ip 'mkdir -p .../script.paragontv/cache'   (result not looked at)
Mkdir ==
    /\ pc = "mkdir"
    /\ \E res \in Outcomes(log, Cur, "mkdir", "cache") :
         /\ faults' = Charge(res)
         /\ log' = Append(log, Entry(Cur, "mkdir", "cache", res))
         /\ remoteFS' = IF res = "ok"
                        THEN [remoteFS EXCEPT ![Cur] = MkdirP(RemoteData \o <<"cache">>, @)]
                        ELSE remoteFS
         /\ IF res # "raise" /\ Returned(res)
            THEN pc' = "settings" /\ UNCHANGED <<idx, outcomes>>
            ELSE EndNode(log', counted)
    /\ UNCHANGED <<cfgVars, envVars, satellite_ips, addon_idx, success_count,
                   use_rsync, all_pushed, ret, counted, checks, notes, ips_read,
                   sent, budgetVars>>

\* scp -o ConnectTimeout=10 settings2.xml root@ip:.../script.paragontv/
\* if result != 0: continue
PushSettings ==
    /\ pc = "settings"
    /\ \E res \in SourceOutcomes(localFS.settings2, log, Cur, "scp", "settings2.xml") :
         /\ faults' = Charge(res)
         /\ log' = Append(log, Entry(Cur, "scp", "settings2.xml", res))
         /\ remoteFS' = IF res = "ok"
                        THEN [remoteFS EXCEPT ![Cur] = ScpFile("settings2.xml", RemoteData, @)]
                        ELSE remoteFS
         /\ IF res # "raise" /\ Succeeded(res)
            THEN pc' = "which" /\ UNCHANGED <<idx, outcomes>>
            ELSE EndNode(log', counted)
    /\ UNCHANGED <<cfgVars, envVars, satellite_ips, addon_idx, success_count,
                   use_rsync, all_pushed, ret, counted, checks, notes, ips_read,
                   sent, budgetVars>>

\* rsync_check = subprocess.call(['which', 'rsync'])   (inside the loop)
CheckRsync ==
    /\ pc = "which"
    /\ use_rsync' = rsync
    /\ checks' = Append(checks, [before |-> idx, found |-> rsync])
    /\ log' = Append(log, Entry(Cur, "which", "", IF rsync THEN "ok" ELSE "fail"))
    /\ pc' = "cache"
    /\ UNCHANGED <<cfgVars, envVars, remoteFS, satellite_ips, idx, addon_idx,
                   success_count, all_pushed, ret, counted, outcomes, notes,
                   ips_read, sent, budgetVars, faults>>

\* rsync -az --delete cache/ root@ip:.../script.paragontv/   or
\* scp -r -o ConnectTimeout=10 cache/ root@ip:.../script.paragontv/
\* if result == 0: success_count += 1
PushCache ==
    /\ pc = "cache"
    /\ LET how == IF use_rsync THEN "rsync" ELSE "scp" IN
       \E res \in SourceOutcomes(localFS.cache.exists, log, Cur, how, "cache") :
         /\ faults' = Charge(res)
         /\ log' = Append(log, Entry(Cur, how, "cache", res))
         /\ remoteFS' =
              IF res # "ok" THEN remoteFS
              ELSE IF use_rsync
              THEN [remoteFS EXCEPT ![Cur] = RsyncDelete(localFS.cache.files, RemoteData, @)]
              ELSE [remoteFS EXCEPT ![Cur] = ScpRecursive("cache", localFS.cache.files, RemoteData, @)]
         /\ sent' = IF res = "ok" THEN Remember(Cur, "cache", how, localFS.cache.files)
                                  ELSE sent
         /\ success_count' = IF res # "raise" /\ Succeeded(res)
                             THEN success_count + 1 ELSE success_count
         /\ counted' = (res # "raise" /\ Succeeded(res))
         /\ EndNode(log', counted')
    /\ UNCHANGED <<cfgVars, envVars, satellite_ips, addon_idx, use_rsync,
                   all_pushed, ret, checks, notes, ips_read, budgetVars>>

\* ---------------------------------------------------- satellite_alignment
\* use_rsync = subprocess.call(['which', 'rsync']) == 0   (before the loop)
SelectStrategy ==
    /\ pc = "strategy"
    /\ use_rsync' = rsync
    /\ checks' = Append(checks, [before |-> 0, found |-> rsync])
    /\ pc' = "probe"
    /\ UNCHANGED <<cfgVars, envVars, remoteFS, satellite_ips, idx, addon_idx,
                   success_count, all_pushed, ret, log, counted, outcomes, notes,
                   ips_read, sent, budgetVars, faults>>

\* The notification and the restart are not under `if all_pushed`.
AfterAddonRestartAnyway(pushed, l) ==
    LET ap == all_pushed /\ pushed IN
    /\ all_pushed' = ap
    /\ IF addon_idx < Len(ADDONS_TO_PUSH)
       THEN /\ addon_idx' = addon_idx + 1
            /\ pc' = "addon"
            /\ UNCHANGED <<idx, outcomes, success_count, counted>>
       ELSE /\ success_count' = IF ap THEN success_count + 1 ELSE success_count
            /\ counted' = ap
            /\ pc' = "notify"
            /\ UNCHANGED <<idx, outcomes, addon_idx>>

\* After a failed transfer the remaining addons of the node are left out.
AfterAddonBreak(pushed, l) ==
    LET ap == AllPushed(all_pushed, pushed) IN
    /\ all_pushed' = ap
    /\ IF addon_idx < Len(ADDONS_TO_PUSH) /\ pushed
       THEN /\ addon_idx' = addon_idx + 1
            /\ pc' = "addon"
            /\ UNCHANGED <<idx, outcomes, success_count, counted>>
       ELSE IF ap
       THEN /\ success_count' = success_count + 1
            /\ counted' = TRUE
            /\ pc' = "notify"
            /\ UNCHANGED <<idx, outcomes, addon_idx>>
       ELSE /\ EndNode(l, counted)
            /\ UNCHANGED <<success_count, counted, addon_idx>>

\* push_addon_to_satellite has returned pushed for ADDONS_TO_PUSH[addon_idx]:
\*   if not push_addon_to_satellite(...): all_pushed = False
\* and, after the last addon,
\*   if all_pushed: success_count += 1 ... else: log("Partial failure ...")
AfterAddon(pushed, l) ==
    LET ap == AllPushed(all_pushed, pushed) IN
    /\ all_pushed' = ap
    /\ IF addon_idx < Len(ADDONS_TO_PUSH)
       THEN /\ addon_idx' = addon_idx + 1
            /\ pc' = "addon"
            /\ UNCHANGED <<idx, outcomes, success_count, counted>>
       ELSE IF ap
       THEN /\ success_count' = success_count + 1
            /\ counted' = TRUE
            /\ pc' = "notify"
            /\ UNCHANGED <<idx, outcomes, addon_idx>>
       ELSE /\ EndNode(l, counted)
            /\ UNCHANGED <<success_count, counted, addon_idx>>

\* The exception leaves push_addon_to_satellite and the inner loop and is
\* caught by the except clause of the outer loop.
Raised(l) ==
    /\ EndNode(l, counted)
    /\ UNCHANGED <<all_pushed, addon_idx, success_count, counted>>

\* push_addon_to_satellite, first part:
\*   if not os.path.exists(addon_path): return True
\*   if use_rsync: rsync -az --delete addon_path root@ip:/storage/.kodi/addons/
\*   else: ssh root@ip 'rm -rf /storage/.kodi/addons/<name>'  (result not looked at)
PushAddon ==
    /\ pc = "addon"
    /\ LET a == ADDONS_TO_PUSH[addon_idx] IN
       IF ~localFS.addons[a].exists
       THEN /\ AfterAddon(TRUE, log)
            /\ UNCHANGED <<log, remoteFS, sent, faults>>
       ELSE IF use_rsync
       THEN \E res \in Outcomes(log, Cur, "rsync", a) :
              /\ faults' = Charge(res)
              /\ log' = Append(log, Entry(Cur, "rsync", a, res))
              /\ remoteFS' = IF res = "ok"
                             THEN [remoteFS EXCEPT ![Cur] =
                                     RsyncDelete(localFS.addons[a].files, RemoteAddons, @)]
                             ELSE remoteFS
              /\ sent' = IF res = "ok"
                         THEN Remember(Cur, a, "rsync", localFS.addons[a].files)
                         ELSE sent
              /\ IF res = "raise" THEN Raised(log') ELSE AfterAddon(Succeeded(res), log')
       ELSE \E res \in Outcomes(log, Cur, "rm", a) :
              /\ faults' = Charge(res)
              /\ log' = Append(log, Entry(Cur, "rm", a, res))
              /\ remoteFS' = IF res = "ok"
                             THEN [remoteFS EXCEPT ![Cur] = RmRf(RemoteAddons \o <<a>>, @)]
                             ELSE remoteFS
              /\ sent' = IF res = "ok"
                         THEN [sent EXCEPT ![Cur][a].wiped = TRUE]
                         ELSE sent
              /\ IF res = "raise"
                 THEN Raised(log')
                 ELSE /\ pc' = "addon_scp"
                      /\ UNCHANGED <<idx, outcomes, all_pushed, addon_idx,
                                     success_count, counted>>
    /\ UNCHANGED <<cfgVars, envVars, satellite_ips, use_rsync, ret, checks,
                   notes, ips_read, budgetVars>>

\* push_addon_to_satellite, scp branch after the rm:
\*   scp -r -o ConnectTimeout=10 addon_path root@ip:/storage/.kodi/addons/
AddonScp ==
    /\ pc = "addon_scp"
    /\ LET a == ADDONS_TO_PUSH[addon_idx] IN
       \E res \in SourceOutcomes(localFS.addons[a].exists, log, Cur, "scp", a) :
         /\ faults' = Charge(res)
         /\ log' = Append(log, Entry(Cur, "scp", a, res))
         /\ remoteFS' = IF res = "ok"
                        THEN [remoteFS EXCEPT ![Cur] =
                                ScpRecursive(a, localFS.addons[a].files, RemoteAddons, @)]
                        ELSE remoteFS
         /\ sent' = IF res = "ok"
                    THEN Remember(Cur, a, "scp", localFS.addons[a].files)
                    ELSE sent
         /\ IF res = "raise" THEN Raised(log') ELSE AfterAddon(Succeeded(res), log')
    /\ UNCHANGED <<cfgVars, envVars, satellite_ips, use_rsync, ret, checks,
                   notes, ips_read, budgetVars>>

\* ssh root@ip 'kodi-send --action="Notification(...)"'  (result not looked at)
Notify ==
    /\ pc = "notify"
    /\ \E res \in Outcomes(log, Cur, "notify", "") :
         /\ faults' = Charge(res)
         /\ log' = Append(log, Entry(Cur, "notify", "", res))
         /\ IF res = "raise"
            THEN EndNode(log', counted)
            ELSE pc' = "restart" /\ UNCHANGED <<idx, outcomes>>
    /\ UNCHANGED <<cfgVars, envVars, remoteFS, satellite_ips, addon_idx,
                   success_count, use_rsync, all_pushed, ret, counted, checks,
                   notes, ips_read, sent, budgetVars>>

\* The exit status of the restart call is looked at: the node is held until
\* the call has exited 0.
RestartConfirmed ==
    /\ pc = "restart"
    /\ \E res \in Outcomes(log, Cur, "restart", "") :
         /\ faults' = Charge(res)
         /\ log' = Append(log, Entry(Cur, "restart", "", res))
         /\ IF res = "ok"
            THEN EndNode(log', counted)
            ELSE UNCHANGED <<pc, idx, outcomes>>
    /\ UNCHANGED <<cfgVars, envVars, remoteFS, satellite_ips, addon_idx,
                   success_count, use_rsync, all_pushed, ret, counted, checks,
                   notes, ips_read, sent, budgetVars>>

\* ssh root@ip 'nohup sh -c "sleep 10 && killall -9 kodi.bin" > /dev/null 2>&1 &'
\* (result not looked at); the iteration ends either way.
Restart ==
    /\ pc = "restart"
    /\ \E res \in Outcomes(log, Cur, "restart", "") :
         /\ faults' = Charge(res)
         /\ log' = Append(log, Entry(Cur, "restart", "", res))
         /\ EndNode(log', counted)
    /\ UNCHANGED <<cfgVars, envVars, remoteFS, satellite_ips, addon_idx,
                   success_count, use_rsync, all_pushed, ret, counted, checks,
                   notes, ips_read, sent, budgetVars>>

\* ------------------------------------------------------------ environment
\* rsync is installed or removed on the controller while the script runs.
ToggleRsync ==
    /\ pc # "done"
    /\ envChanges < MaxEnvChanges
    /\ rsync' = ~rsync
    /\ envChanges' = envChanges + 1
    /\ UNCHANGED <<cfgVars, localFS, remoteFS, pc, loopVars, ret, histVars,
                   runs, twin, workers, ledgerVars, faults>>

\* A local source of the script in hand disappears while the script runs.
RemoveLocalPath ==
    /\ pc # "done"
    /\ envChanges < MaxEnvChanges
    /\ envChanges' = envChanges + 1
    /\ IF mode = "push_to_satellites"
       THEN \/ localFS.settings2 /\ localFS' = [localFS EXCEPT !.settings2 = FALSE]
            \/ localFS.cache.exists /\ localFS' = [localFS EXCEPT !.cache = Absent]
       ELSE \E a \in AddonNames :
              /\ localFS.addons[a].exists
              /\ localFS' = [localFS EXCEPT !.addons[a] = Absent]
    /\ UNCHANGED <<cfgVars, rsync, remoteFS, pc, loopVars, ret, histVars,
                   runs, twin, workers, ledgerVars, faults>>

\* Between two runs, one file is deleted from a local tree the script in
\* hand transfers.
DeleteLocalFile ==
    /\ pc = "done"
    /\ envChanges < MaxEnvChanges
    /\ envChanges' = envChanges + 1
    /\ IF mode = "push_to_satellites"
       THEN \E f \in localFS.cache.files :
              localFS' = [localFS EXCEPT !.cache.files = @ \ {f}]
       ELSE \E a \in AddonNames : \E f \in localFS.addons[a].files :
              localFS' = [localFS EXCEPT !.addons[a].files = @ \ {f}]
    /\ UNCHANGED <<cfgVars, rsync, remoteFS, pc, loopVars, ret, histVars,
                   runs, twin, workers, ledgerVars, faults>>

\* The locals of the script at its first line.
Started ==
    /\ pc' = "enabled"
    /\ satellite_ips' = <<>>
    /\ idx' = 1
    /\ addon_idx' = 1
    /\ success_count' = 0
    /\ use_rsync' = FALSE
    /\ all_pushed' = TRUE
    /\ ret' = "none"
    /\ log' = <<>>
    /\ counted' = FALSE
    /\ outcomes' = <<>>
    /\ checks' = <<>>
    /\ notes' = <<>>
    /\ ips_read' = 0
    /\ faults' = 0

\* The script is started again: the settings, the local sources and the
\* satellites are as the last run left them.
Rerun ==
    /\ pc = "done"
    /\ runs < MaxRuns
    /\ runs' = runs + 1
    /\ Started
    /\ UNCHANGED <<cfgVars, envVars, remoteFS, sent, envChanges, twin, workers,
                   ledgerVars>>

\* ------------------------------------------------------------- twin runs
\* The iteration of a node has just ended: its calls and results are kept
\* for comparison with a second run.
Observe ==
    /\ twin = NoTwin
    /\ runs = 1
    /\ pc \in {"probe", "summary"}
    /\ outcomes # <<>>
    /\ twin' = [ip |-> outcomes[Len(outcomes)].ip, log |-> log,
                counted |-> outcomes[Len(outcomes)].counted, others |-> 0]
    /\ UNCHANGED <<cfgVars, envVars, remoteFS, pc, loopVars, ret, histVars,
                   runs, envChanges, workers, ledgerVars, faults>>

\* A second run from the state the first run started in, with the same
\* settings and local sources.  The observed node is given the results of
\* the first run; the results of every other node are free.
TwinRun ==
    /\ twin # NoTwin
    /\ pc = "done"
    /\ runs = 1
    /\ runs' = runs + 1
    /\ twin' = [twin EXCEPT !.others = success_count - (IF twin.counted THEN 1 ELSE 0)]
    /\ remoteFS' = [a \in Addresses |-> InitialRemote]
    /\ sent' = NoSent
    /\ Started
    /\ UNCHANGED <<cfgVars, envVars, envChanges, workers, ledgerVars>>

Next ==
    \/ CheckEnabled
    \/ ReadNodes
    \/ CheckSources
    \/ Probe
    \/ Mkdir
    \/ PushSettings
    \/ CheckRsync
    \/ PushCache
    \/ SelectStrategy
    \/ PushAddon
    \/ AddonScp
    \/ Notify
    \/ Restart
    \/ Summary

Spec == Init /\ [][Next]_vars

\* Any settings and local sources, the filled slots being the first ones:
\* which slots are filled makes no difference to a run once the list is
\* built.
InitPacked ==
    /\ Init
    /\ \A i \in Slots : i > 1 /\ setting.SlaveIP[i] # "" => setting.SlaveIP[i - 1] # ""

SpecPacked == InitPacked /\ [][Next]_vars

\* All sources present, the feature enabled, the first slots filled.
InitReady ==
    /\ Init
    /\ setting.Enable
    /\ localFS.settings2 /\ localFS.cache.exists
    /\ \A a \in AddonNames : localFS.addons[a].exists
    /\ \A i \in Slots : i > 1 /\ setting.SlaveIP[i] # "" => setting.SlaveIP[i - 1] # ""

\* The same with one satellite fewer than the bound allows.
InitFew ==
    /\ InitReady
    /\ Cardinality({i \in Slots : setting.SlaveIP[i] # ""}) < MaxNodes

\* The local environment changes under the running script.
NextEnv == Next \/ ToggleRsync \/ RemoveLocalPath

SpecEnv == InitFew /\ [][NextEnv]_vars

\* One satellite, in the first slot.
InitOne ==
    /\ InitReady
    /\ \A i \in Slots : setting.SlaveIP[i] # "" <=> i = 1

\* Runs in a row against that satellite, with local files deleted in between.
NextFS == Next \/ DeleteLocalFile \/ Rerun

SpecFS == InitOne /\ [][NextFS]_vars

\* A run and its twin.
NextPair == Next \/ Observe \/ TwinRun

SpecPair == InitFew /\ [][NextPair]_vars

\* ================================================================ claims
Last(q) == q[Len(q)]

Finished == 1..Len(outcomes)

\* The script got past its local checks and entered the loop.
LoopEntered ==
    /\ notes # <<>>
    /\ notes[1].msg \in {"Pushing to satellite(s)", "Aligning satellite(s)"}

\* A node is in hand between its probe and the end of its iteration.
InHand == pc \in {"mkdir", "settings", "which", "cache", "addon", "addon_scp",
                  "notify", "restart"}

AllUnits == {Units(mode)[k] : k \in 1..Len(Units(mode))}

\* The units whose local path exists.
PresentUnits ==
    IF mode = "push_to_satellites"
    THEN {u \in AllUnits : IF u = "cache" THEN localFS.cache.exists ELSE localFS.settings2}
    ELSE {a \in AddonNames : localFS.addons[a].exists}

\* C1: a node whose probe did not return 0 gets no further command in the
\* run (its log is the probe alone, its files are untouched, it is handled
\* once) and is not counted.
C1_UnreachableUntouched ==
    /\ \A k \in Finished :
         ~outcomes[k].reachable =>
            /\ outcomes[k].ncmds <= 1
            /\ outcomes[k].transferred = {}
            /\ outcomes[k].restarts = 0
            /\ ~outcomes[k].counted
            /\ remoteFS[outcomes[k].ip] = InitialRemote
    /\ (log # <<>> /\ log[1].res # "ok") => Len(log) = 1 /\ ~counted
    /\ \A k \in 1..Len(log) : log[k].ip = log[1].ip
    /\ \A j, k \in Finished : j # k => outcomes[j].ip # outcomes[k].ip
    /\ success_count <= Cardinality({k \in Finished : outcomes[k].reachable})
                        + (IF InHand THEN 1 ELSE 0)

C1_Witness ==
    /\ pc = "done"
    /\ \E j, k \in Finished :
         /\ j < k
         /\ ~outcomes[j].reachable /\ outcomes[j].ncmds = 1
         /\ outcomes[k].counted

C3_CountedOnlyIfAllUnits ==
    \A k \in Finished :
        outcomes[k].counted =>
            outcomes[k].reachable /\ outcomes[k].transferred = AllUnits

\* C3 as amended: a node is counted only if it was reachable, no transfer
\* to it failed and every unit whose local path exists was transferred to
\* it with exit status 0; a bundle whose local path is absent is skipped.
C3_CountedOnlyIfPresentUnits ==
    /\ \A k \in Finished :
         outcomes[k].counted =>
            /\ outcomes[k].reachable
            /\ ~outcomes[k].failed
            /\ outcomes[k].transferred = PresentUnits
    /\ counted =>
         /\ log[1].cmd = "probe" /\ log[1].res = "ok"
         /\ \A u \in PresentUnits : \E k \in 1..Len(log) :
              log[k].cmd \in TransferCmds /\ log[k].unit = u /\ log[k].res = "ok"
         /\ \A k \in 1..Len(log) : log[k].cmd \in TransferCmds => log[k].res = "ok"

C3_Witness ==
    \E k \in Finished :
        /\ outcomes[k].counted
        /\ outcomes[k].transferred # AllUnits
        /\ outcomes[k].transferred # {}

C5_CountIsDone ==
    (LoopEntered /\ pc = "done") =>
        success_count = Cardinality({k \in Finished :
                            /\ outcomes[k].reachable
                            /\ outcomes[k].transferred = AllUnits
                            /\ outcomes[k].restarts = 1})

\* C5 as amended: at the end of a run that processed nodes, success_count
\* is the number of nodes that were reachable and got every unit present
\* locally without a failed transfer (the dispatch of a restart is no
\* condition); every node has one record; the count is within 0..nodes.
C5_CountIsPushed ==
    /\ success_count \in 0..Len(satellite_ips)
    /\ (LoopEntered /\ pc = "done") =>
         /\ Len(outcomes) = Len(satellite_ips)
         /\ \A j, k \in Finished : j # k => outcomes[j].ip # outcomes[k].ip
         /\ success_count = Cardinality({k \in Finished :
                                /\ outcomes[k].reachable
                                /\ ~outcomes[k].failed
                                /\ outcomes[k].transferred = PresentUnits})

C5_Witness ==
    /\ pc = "done"
    /\ Len(outcomes) = 3
    /\ success_count = 2
    /\ \E k \in Finished : outcomes[k].failed

\* C6: in the twin of a run, where only the results of the other nodes
\* differ, the observed node is sent the same calls with the same results,
\* in the same order, and ends with the same record as in the first run.
C6_Isolation ==
    (runs = 2 /\ log # <<>> /\ log[1].ip = twin.ip) =>
        /\ Len(log) <= Len(twin.log)
        /\ \A k \in 1..Len(log) : log[k] = twin.log[k]
        /\ ~InHand =>
             /\ log = twin.log
             /\ counted = twin.counted
             /\ \E k \in Finished :
                  outcomes[k] = Summarize(twin.ip, twin.log, twin.counted)

\* The observed node is the second of two; the first node was counted in
\* one run and not in the other.
C6_Witness ==
    /\ runs = 2
    /\ pc = "done"
    /\ Len(outcomes) = 2
    /\ outcomes[2].ip = twin.ip
    /\ outcomes[2].counted
    /\ (IF outcomes[1].counted THEN 1 ELSE 0) # twin.others

\* The observed node is the first of two; the second node was counted in
\* one run and not in the other.
C6_WitnessFirst ==
    /\ runs = 2
    /\ pc = "done"
    /\ Len(outcomes) = 2
    /\ outcomes[1].ip = twin.ip
    /\ outcomes[1].counted
    /\ (IF outcomes[2].counted THEN 1 ELSE 0) # twin.others

NoSlot == \A i \in Slots : setting.SlaveIP[i] = ""

Untouched == remoteFS = [a \in Addresses |-> InitialRemote]

\* C7: with the feature disabled or all five slots empty, the run is a
\* no-op: no ssh, scp, rsync or which is started, no satellite changes, the
\* result is False and no error is notified; when disabled, the slots are
\* not even read and nothing is notified.
C7_NoOpRun ==
    (~setting.Enable \/ NoSlot) =>
        /\ log = <<>> /\ outcomes = <<>> /\ checks = <<>>
        /\ Untouched
        /\ success_count = 0
        /\ pc \in {"enabled", "nodes", "done"}
        /\ pc = "done" => ret = "False"
        /\ ~setting.Enable =>
             /\ pc \in {"enabled", "done"}
             /\ ips_read = 0 /\ satellite_ips = <<>>
             /\ notes = <<>>
        /\ (setting.Enable /\ pc = "done") => notes = <<Note("No satellites configured", <<>>)>>

C7_Witness ==
    /\ pc = "done"
    /\ ~setting.Enable
    /\ ~NoSlot

ErrorNotes == {"settings2.xml not found", "cache folder not found", "No addon paths found"}

\* C8 as claimed: if any local source of the run is absent (settings2.xml
\* or the cache folder; any of the addon folders), no node is probed and no
\* record is made.
C8_AbortOnAnyMissing ==
    PresentUnits # AllUnits =>
        /\ log = <<>> /\ outcomes = <<>>
        /\ Untouched

\* C8 as amended: the run is aborted before any node is probed when
\* settings2.xml or the cache folder is absent (push_to_satellites), or when
\* none of the addon folders exists (satellite_alignment): no call is made,
\* no record is made, an error is notified and the result is False.
C8_AbortOnMissingSources ==
    (IF mode = "push_to_satellites"
     THEN ~localFS.settings2 \/ ~localFS.cache.exists
     ELSE PresentUnits = {}) =>
        /\ log = <<>> /\ outcomes = <<>> /\ checks = <<>>
        /\ Untouched
        /\ pc \in {"enabled", "nodes", "sources", "done"}
        /\ (pc = "done" /\ satellite_ips # <<>>) =>
             /\ ret = "False"
             /\ Len(notes) = 1 /\ notes[1].msg \in ErrorNotes

C8_Witness ==
    /\ pc = "done"
    /\ satellite_ips # <<>>
    /\ PresentUnits # AllUnits
    /\ notes # <<>> /\ notes[1].msg \in ErrorNotes

\* C9 as claimed: every tree transfer of a run is made with the same tool,
\* whatever happens to rsync on the controller during the run.
C9_OneStrategy ==
    Cardinality(UNION {outcomes[k].tools : k \in Finished}) <= 1

\* The last call of the log is a tree transfer that exited 0.
TreeSent ==
    /\ log # <<>>
    /\ Last(log).cmd \in TransferCmds
    /\ Last(log).unit # "settings2.xml"
    /\ Last(log).res = "ok"

\* The files the tree held at the transfer before and no longer holds.
Stale == sent[Last(log).ip][Last(log).unit].stale

\* Where a file of a tree is put on the satellite by each tool.
Landing(how, unit, f) ==
    IF how = "rsync"
    THEN (IF unit = "cache" THEN RemoteData ELSE RemoteAddons) \o <<f>>
    ELSE (IF unit = "cache" THEN RemoteData \o <<"cache">>
                            ELSE RemoteAddons \o <<unit>>) \o <<f>>

OnRemote(f) == Landing(Last(log).cmd, Last(log).unit, f) \in remoteFS[Last(log).ip]

ScenarioABC ==
    /\ pc = "done"
    /\ Len(outcomes) = 3
    /\ PresentUnits = AllUnits
    /\ ~outcomes[1].reachable
    /\ outcomes[2].reachable /\ ~outcomes[2].failed
    /\ outcomes[2].transferred = AllUnits
    /\ outcomes[3].reachable /\ outcomes[3].failed
    /\ outcomes[3].transferred = {Units(mode)[1]}

C12_ReturnIffCounted ==
    /\ pc # "done" => ret = "none"
    /\ pc = "done" =>
         /\ ret \in {"True", "False"}
         /\ ret = "True" <=> \E k \in Finished : outcomes[k].counted
         /\ ret = "True" <=> success_count > 0
         /\ ~setting.Enable => ret = "False"
         /\ NoSlot => ret = "False"
         /\ ~SourcesPresent(mode, localFS) => ret = "False"
         /\ (\A k \in Finished : ~outcomes[k].counted) => ret = "False"

\* Two nodes were processed, none was counted, the result is False.
C12_Witness ==
    /\ pc = "done"
    /\ Len(outcomes) = 2
    /\ \A k \in Finished : ~outcomes[k].counted
    /\ \E k \in Finished : outcomes[k].reachable
    /\ ret = "False"

\* One node of three was counted, the result is True.
C12_WitnessPartial ==
    /\ pc = "done"
    /\ Len(outcomes) = 3
    /\ success_count = 1
    /\ ret = "True"

FilledSlots(s) == {i \in Slots : s[i] # ""}

\* list holds the values of the filled slots of s, in ascending slot order.
IsSlotList(list, s) ==
    /\ Len(list) = Cardinality(FilledSlots(s))
    /\ Len(list) <= MaxSatellites
    /\ \A i \in FilledSlots(s) :
         list[Cardinality({j \in FilledSlots(s) : j <= i})] = s[i]

\* Every way of filling the five slots.
SlotSettings == {[i \in Slots |-> IF i \in S THEN Address[i] ELSE ""] : S \in SUBSET Slots}

\* C13: the node list of a run is the non-empty values of SlaveIP1..SlaveIP5
\* in ascending slot order (for every way of filling the slots, all five
\* included); an empty slot is left out and does not end the run; the slots
\* are read once, before any node is contacted, and the list is not changed
\* afterwards.
C13_NodeListFromSlots ==
    /\ pc = "nodes" => \A s \in SlotSettings : IsSlotList(ListIPs(s), s)
    /\ ips_read \in {0, 1}
    /\ ips_read = 0 => satellite_ips = <<>> /\ log = <<>> /\ outcomes = <<>>
    /\ ips_read = 1 => IsSlotList(satellite_ips, setting.SlaveIP)
    /\ (ips_read = 1 /\ ~NoSlot) =>
         (notes # <<>> => notes[1].msg # "No satellites configured")
    /\ \A k \in 1..Len(log) : log[k].ip \in {satellite_ips[j] : j \in 1..Len(satellite_ips)}
    /\ \A k \in Finished : outcomes[k].ip = satellite_ips[k]

\* A run over slots 2 and 4 (1, 3 and 5 empty) that reached its second node.
C13_Witness ==
    /\ FilledSlots(setting.SlaveIP) = {2, 4}
    /\ satellite_ips = <<Address[2], Address[4]>>
    /\ Len(outcomes) = 2
    /\ outcomes[2].reachable

StartNotes == {"Pushing to satellite(s)", "Aligning satellite(s)"}

SummaryNotes == {"No satellites configured", "Updated satellite(s)", "Failed to update"}

C14_WitnessAborted ==
    /\ pc = "done"
    /\ notes # <<>>
    /\ Last(notes).msg \in ErrorNotes

\* The state of a node whose iteration has ended, from its record.
FinalState(o) ==
    IF ~o.reachable THEN "Unreachable"
    ELSE IF ~o.counted THEN "PartialFailure"
    ELSE IF o.restarts = 1 THEN "Done"
    ELSE IF "restart" \in o.called THEN "Restarting"
    ELSE "AllPushed"

\* The state of the k-th node of the list: Pending until the loop reaches
\* it, Probing when its probe is the next call, Pushing while its units are
\* transferred, AllPushed once it is counted, Restarting when the restart
\* is the next call.
NodeState(k) ==
    IF k <= Len(outcomes) THEN FinalState(outcomes[k])
    ELSE IF k # idx \/ pc \notin {"probe"} \cup
               {"mkdir", "settings", "which", "cache", "addon", "addon_scp", "notify", "restart"}
    THEN "Pending"
    ELSE IF pc = "probe" THEN "Probing"
    ELSE IF pc \in {"mkdir", "settings", "which", "cache", "addon", "addon_scp"} THEN "Pushing"
    ELSE IF ~counted THEN "PartialFailure"
    ELSE IF pc = "notify" THEN "AllPushed"
    ELSE "Restarting"

NodeEdges ==
    {<<"Pending", "Probing">>,
     <<"Probing", "Unreachable">>, <<"Probing", "Pushing">>,
     <<"Pushing", "PartialFailure">>, <<"Pushing", "AllPushed">>,
     <<"AllPushed", "Restarting">>,
     <<"Restarting", "Done">>}

TerminalStates == {"Unreachable", "PartialFailure", "Done"}

\* C15: every node moves along the edges Pending -> Probing ->
\* (Unreachable | Pushing) -> (PartialFailure | AllPushed) -> Restarting ->
\* Done only; once a node is Unreachable, PartialFailure or Done it stays
\* so and no further call is made for it; a node with a failed transfer is
\* never AllPushed, Restarting or Done and ends in PartialFailure.
C15_NodeStateMachine ==
    /\ [](/\ \A k \in Finished :
               outcomes[k].failed => FinalState(outcomes[k]) = "PartialFailure"
          /\ (InHand /\ \E j \in 1..Len(log) :
                           log[j].cmd \in TransferCmds /\ log[j].res = "fail")
               => NodeState(idx) \in {"Pushing", "PartialFailure"})
    /\ [][\A k \in Slots :
            /\ NodeState(k)' # NodeState(k) => <<NodeState(k), NodeState(k)'>> \in NodeEdges
            /\ (k <= Len(satellite_ips) /\ NodeState(k) \in TerminalStates) =>
                  /\ NodeState(k)' = NodeState(k)
                  /\ log' # log => Last(log').ip # satellite_ips[k]]_vars

\* A run of three nodes that ended Unreachable, Done and PartialFailure.
C15_Witness ==
    /\ pc = "done"
    /\ Len(outcomes) = 3
    /\ {FinalState(outcomes[k]) : k \in Finished} = TerminalStates

IsSettingsPush(e) == e.cmd = "scp" /\ e.unit = "settings2.xml"

IsCachePush(e) == e.cmd \in TransferCmds /\ e.unit = "cache"

\* C16: in push_to_satellites the cache transfer to a node is started only
\* after the settings2.xml transfer to the same node has ended with exit
\* status 0; no settings2.xml transfer follows it, and a node is counted
\* only with both, in that order.
C16_SettingsBeforeCache ==
    mode = "push_to_satellites" =>
        /\ \A k \in 1..Len(log) :
             IsCachePush(log[k]) =>
                /\ \E j \in 1..(k - 1) : IsSettingsPush(log[j]) /\ log[j].res = "ok"
                /\ \A j \in k..Len(log) : ~IsSettingsPush(log[j])
        /\ pc \in {"which", "cache"} =>
             \E j \in 1..Len(log) : IsSettingsPush(log[j]) /\ log[j].res = "ok"
        /\ \A k \in Finished :
             "cache" \in outcomes[k].transferred => "settings2.xml" \in outcomes[k].transferred

\* A node whose cache transfer followed its settings2.xml transfer, after a
\* node whose settings2.xml transfer failed and that got no cache transfer.
C16_Witness ==
    /\ mode = "push_to_satellites"
    /\ Len(log) >= 2
    /\ IsCachePush(Last(log))
    /\ \E k \in Finished : outcomes[k].failed /\ outcomes[k].transferred = {}

\* C17: nothing is tried twice in a run: the calls of a node start with its
\* one probe, no unit is transferred to it twice (a failed probe or
\* transfer is not repeated), every node has one record with one probe, and
\* no address is taken up again.
C17_NoRetry ==
    /\ log # <<>> =>
         /\ log[1].cmd = "probe"
         /\ \A k \in 2..Len(log) : log[k].cmd # "probe"
    /\ \A j, k \in 1..Len(log) :
         (j < k /\ log[j].cmd \in TransferCmds /\ log[k].cmd \in TransferCmds)
            => log[j].unit # log[k].unit
    /\ \A j, k \in 1..Len(log) :
         (j < k /\ log[j].cmd = log[k].cmd) => log[j].unit # log[k].unit
    /\ Len(outcomes) <= Len(satellite_ips)
    /\ \A k \in Finished : outcomes[k].probes = 1 /\ outcomes[k].ip = satellite_ips[k]
    /\ \A j, k \in Finished : j # k => outcomes[j].ip # outcomes[k].ip
    /\ InHand => log[1].ip = Cur /\ \A k \in Finished : outcomes[k].ip # Cur

\* A run that ended after a failed probe of one node and a failed transfer
\* to another.
C17_Witness ==
    /\ pc = "done"
    /\ \E j, k \in Finished :
         /\ ~outcomes[j].reachable /\ ~outcomes[j].raised
         /\ outcomes[k].failed

\* C18: a node whose units were all pushed stays counted whatever becomes of
\* the notification and of the restart call (non-zero exit or exception),
\* and the restart is still called when the notification call failed.
C18_NotifyFailureHarmless ==
    \A k \in Finished :
        "notify" \in outcomes[k].called =>
            /\ outcomes[k].counted
            /\ "restart" \in outcomes[k].called

IsTreePush(e) == e.cmd \in TransferCmds /\ e.unit # "settings2.xml"

\* C19 as claimed: before every transfer of the cache or of an addon to a
\* node, a mkdir for the destination was issued to that node.
C19_MkdirBeforeEveryTree ==
    \A k \in 1..Len(log) :
        IsTreePush(log[k]) =>
            \E j \in 1..(k - 1) : log[j].cmd = "mkdir" /\ log[j].res # "raise"

\* C19 as amended: push_to_satellites issues mkdir -p for the cache folder
\* right after the probe, before both transfers; its exit status is not
\* looked at (the settings2.xml transfer is the next call whether it was 0
\* or not, and the node is counted by its transfers alone), but a mkdir call
\* that raised ends the iteration.  satellite_alignment issues no mkdir: with
\* scp it issues rm -rf for the addon folder instead, whose exit status is
\* not looked at either, and with rsync nothing.
C19_MkdirInPushOnly ==
    /\ mode = "push_to_satellites" =>
         /\ \A k \in 1..Len(log) :
              log[k].cmd \in TransferCmds =>
                 (k > 2 /\ log[2].cmd = "mkdir" /\ log[2].res \in {"ok", "fail"})
         /\ (log # <<>> /\ Last(log).cmd = "mkdir") =>
              IF Last(log).res = "raise"
              THEN ~InHand /\ ~counted /\ Len(log) = 2
              ELSE pc = "settings" /\ Len(log) = 2
         /\ \A k \in Finished :
              outcomes[k].counted <=> outcomes[k].transferred = AllUnits
    /\ mode = "satellite_alignment" =>
         /\ \A k \in 1..Len(log) : log[k].cmd # "mkdir"
         /\ \A k \in 1..Len(log) :
              (log[k].cmd = "scp") =>
                 (k > 1 /\ log[k - 1].cmd = "rm" /\ log[k - 1].unit = log[k].unit
                        /\ log[k - 1].res \in {"ok", "fail"})
         /\ (log # <<>> /\ Last(log).cmd = "rm" /\ Last(log).res # "raise") =>
              pc = "addon_scp"

\* A node of push_to_satellites whose mkdir exited non-zero and that was
\* counted all the same.
C19_Witness ==
    /\ mode = "push_to_satellites"
    /\ Len(log) >= 2
    /\ log[2].cmd = "mkdir" /\ log[2].res = "fail"
    /\ IsTreePush(Last(log)) /\ Last(log).res = "ok"
    /\ counted

\* Where the files of a transferred unit are on the satellite.
UnitPaths(o, u) ==
    IF u = "settings2.xml" THEN {RemoteData \o <<"settings2.xml">>}
    ELSE LET files == IF u = "cache" THEN localFS.cache.files ELSE localFS.addons[u].files
         IN {Landing(how, u, f) : how \in o.tools, f \in files}

\* An earlier unit of the list was transferred to the node, a later one of
\* the units in us was not.
EndedPartial(o, us) ==
    \E i, j \in 1..Len(Units(mode)) :
        /\ i < j
        /\ Units(mode)[i] \in o.transferred
        /\ Units(mode)[j] \in us \ o.transferred

\* Nothing of what was transferred to the node is taken back: the files are
\* on the satellite and the node got no notification and no restart.
KeptAndFailed(o) ==
    /\ ~o.counted
    /\ o.restarts = 0 /\ "notify" \notin o.called
    /\ \A u \in o.transferred : UnitPaths(o, u) \subseteq remoteFS[o.ip]

\* No rm is issued for a unit after that unit was transferred.
NoUndo ==
    \A j, k \in 1..Len(log) :
        (j < k /\ log[j].cmd \in TransferCmds /\ log[j].res = "ok")
            => ~(log[k].cmd = "rm" /\ log[k].unit = log[j].unit)

\* C20 as claimed: a node that ended with an earlier unit transferred and a
\* later unit not transferred is not counted, and nothing transferred to it
\* is taken back.
C20_PartialIsFailed ==
    /\ NoUndo
    /\ \A k \in Finished :
         EndedPartial(outcomes[k], AllUnits) => KeptAndFailed(outcomes[k])

\* C20 as amended: the same for a later unit that exists locally (its
\* transfer failed or was not reached); a later addon that does not exist
\* locally is skipped, and the node is counted without it.
C20_PartialOfPresentIsFailed ==
    /\ NoUndo
    /\ mode = "push_to_satellites" => \A k \in 1..Len(log) : log[k].cmd # "rm"
    /\ \A k \in Finished :
         /\ EndedPartial(outcomes[k], PresentUnits) => KeptAndFailed(outcomes[k])
         /\ (EndedPartial(outcomes[k], AllUnits) /\ ~EndedPartial(outcomes[k], PresentUnits))
              => outcomes[k].counted

\* A run ended with the first unit on a satellite and the second, which
\* exists locally, not transferred to it.
C20_Witness ==
    /\ pc = "done"
    /\ \E k \in Finished :
         /\ EndedPartial(outcomes[k], PresentUnits)
         /\ outcomes[k].failed
         /\ \A u \in outcomes[k].transferred : UnitPaths(outcomes[k], u) \subseteq remoteFS[outcomes[k].ip]

\* The script is one thread whose every step is a blocking call; when every
\* call returns, the step that is enabled is eventually taken.
SpecLive == InitPacked /\ [][Next]_vars /\ WF_vars(Next)

\* The closing notifications of the loop.
LoopSummaries ==
    SelectSeq(notes, LAMBDA n : n.msg \in {"Updated satellite(s)", "Failed to update"})

C22_SameUnitsEveryNode ==
    \A j, k \in Finished :
        (outcomes[j].counted /\ outcomes[k].counted) =>
            outcomes[j].transferred = outcomes[k].transferred

\* ------------------------------------------------- one worker per node
\* The body of the for loop, run for every address by a worker of its own.
\* What the body assigns before it reads (result, rsync_check, all_pushed,
\* the position in ADDONS_TO_PUSH) is the worker's own; success_count, which
\* the body reads before it assigns, is the one variable of the function
\* that an iteration takes over from the iteration before.
Worker == [pc |-> "probe", log |-> <<>>, all_pushed |-> TRUE, addon_idx |-> 1,
           counted |-> FALSE, use_rsync |-> FALSE, reg |-> 0]

\* Every worker is given the first address of the list.
WorkerAddressFirst(w) == satellite_ips[1]

\* for ip in satellite_ips: the w-th worker has the w-th address.
WorkerAddress(w) == satellite_ips[w]

WorkerIds == 1..Len(workers)

Others == <<cfgVars, envVars, pc, loopVars, ret, histVars, runs, envChanges, twin,
            ledgerVars>>

\* The loop is about to start: its iterations are handed to the workers.
Fork ==
    /\ pc = "probe"
    /\ outcomes = <<>>
    /\ workers = <<>>
    /\ workers' = [k \in 1..Len(satellite_ips) |->
                     [Worker EXCEPT !.use_rsync = use_rsync]]
    /\ pc' = "workers"
    /\ UNCHANGED <<cfgVars, envVars, remoteFS, loopVars, ret, histVars, runs,
                   envChanges, twin, ledgerVars, faults>>

\* ssh -o ConnectTimeout=5 -o BatchMode=yes root@ip 'echo "connected"'
\* if result != 0: continue
WorkerProbe ==
    \E w \in WorkerIds :
      LET me == workers[w]
          ip == WorkerAddress(w) IN
      /\ me.pc = "probe"
      /\ \E res \in Outcomes(me.log, ip, "probe", "") :
           /\ faults' = Charge(res)
           /\ workers' = [workers EXCEPT ![w] =
                 [me EXCEPT !.log = <<Entry(ip, "probe", "", res)>>,
                            !.all_pushed = FreshAllPushed(me.all_pushed),
                            !.pc = IF res # "raise" /\ Connected(res)
                                   THEN (IF mode = "push_to_satellites"
                                         THEN "mkdir" ELSE "addon")
                                   ELSE "ended"]]
      /\ UNCHANGED <<Others, remoteFS>>

\* ssh root@ip 'mkdir -p .../script.paragontv/cache'   (result not looked at)
WorkerMkdir ==
    \E w \in WorkerIds :
      LET me == workers[w]
          ip == WorkerAddress(w) IN
      /\ me.pc = "mkdir"
      /\ \E res \in Outcomes(me.log, ip, "mkdir", "cache") :
           /\ faults' = Charge(res)
           /\ remoteFS' = IF res = "ok"
                          THEN [remoteFS EXCEPT ![ip] = MkdirP(RemoteData \o <<"cache">>, @)]
                          ELSE remoteFS
           /\ workers' = [workers EXCEPT ![w] =
                 [me EXCEPT !.log = Append(me.log, Entry(ip, "mkdir", "cache", res)),
                            !.pc = IF res # "raise" /\ Returned(res)
                                   THEN "settings" ELSE "ended"]]
      /\ UNCHANGED Others

\* scp -o ConnectTimeout=10 settings2.xml root@ip:.../script.paragontv/
\* if result != 0: continue
WorkerSettings ==
    \E w \in WorkerIds :
      LET me == workers[w]
          ip == WorkerAddress(w) IN
      /\ me.pc = "settings"
      /\ \E res \in SourceOutcomes(localFS.settings2, me.log, ip, "scp", "settings2.xml") :
           /\ faults' = Charge(res)
           /\ remoteFS' = IF res = "ok"
                          THEN [remoteFS EXCEPT ![ip] = ScpFile("settings2.xml", RemoteData, @)]
                          ELSE remoteFS
           /\ workers' = [workers EXCEPT ![w] =
                 [me EXCEPT !.log = Append(me.log, Entry(ip, "scp", "settings2.xml", res)),
                            !.pc = IF res # "raise" /\ Succeeded(res)
                                   THEN "which" ELSE "ended"]]
      /\ UNCHANGED Others

\* rsync_check = subprocess.call(['which', 'rsync'])   (inside the loop)
WorkerWhich ==
    \E w \in WorkerIds :
      LET me == workers[w]
          ip == WorkerAddress(w) IN
      /\ me.pc = "which"
      /\ workers' = [workers EXCEPT ![w] =
            [me EXCEPT !.log = Append(me.log,
                                 Entry(ip, "which", "", IF rsync THEN "ok" ELSE "fail")),
                       !.use_rsync = rsync,
                       !.pc = "cache"]]
      /\ UNCHANGED <<Others, remoteFS, faults>>

\* rsync -az --delete cache/ root@ip:.../script.paragontv/   or
\* scp -r -o ConnectTimeout=10 cache/ root@ip:.../script.paragontv/
\* if result == 0: success_count += 1
WorkerCache ==
    \E w \in WorkerIds :
      LET me == workers[w]
          ip == WorkerAddress(w)
          how == IF me.use_rsync THEN "rsync" ELSE "scp" IN
      /\ me.pc = "cache"
      /\ \E res \in SourceOutcomes(localFS.cache.exists, me.log, ip, how, "cache") :
           /\ faults' = Charge(res)
           /\ remoteFS' =
                IF res # "ok" THEN remoteFS
                ELSE IF me.use_rsync
                THEN [remoteFS EXCEPT ![ip] = RsyncDelete(localFS.cache.files, RemoteData, @)]
                ELSE [remoteFS EXCEPT ![ip] = ScpRecursive("cache", localFS.cache.files, RemoteData, @)]
           /\ workers' = [workers EXCEPT ![w] =
                 [me EXCEPT !.log = Append(me.log, Entry(ip, how, "cache", res)),
                            !.pc = IF res # "raise" /\ Succeeded(res)
                                   THEN "load" ELSE "ended"]]
      /\ UNCHANGED Others

\* if not push_addon_to_satellite(...): all_pushed = False
\* and, after the last addon, if all_pushed: success_count += 1 ...
WorkerAfterAddon(me, pushed) ==
    LET ap == AllPushed(me.all_pushed, pushed) IN
    [me EXCEPT !.all_pushed = ap,
               !.addon_idx = IF me.addon_idx < Len(ADDONS_TO_PUSH)
                             THEN me.addon_idx + 1 ELSE me.addon_idx,
               !.pc = IF me.addon_idx < Len(ADDONS_TO_PUSH) THEN "addon"
                      ELSE IF ap THEN "load" ELSE "ended"]

\* push_addon_to_satellite, first part (skip, rsync, or rm -rf).
WorkerAddon ==
    \E w \in WorkerIds :
      LET me == workers[w]
          ip == WorkerAddress(w)
          a == ADDONS_TO_PUSH[me.addon_idx] IN
      /\ me.pc = "addon"
      /\ IF ~localFS.addons[a].exists
         THEN /\ workers' = [workers EXCEPT ![w] = WorkerAfterAddon(me, TRUE)]
              /\ UNCHANGED <<remoteFS, faults>>
         ELSE IF me.use_rsync
         THEN \E res \in Outcomes(me.log, ip, "rsync", a) :
                LET logged == [me EXCEPT !.log = Append(me.log, Entry(ip, "rsync", a, res))] IN
                /\ faults' = Charge(res)
                /\ remoteFS' = IF res = "ok"
                               THEN [remoteFS EXCEPT ![ip] =
                                       RsyncDelete(localFS.addons[a].files, RemoteAddons, @)]
                               ELSE remoteFS
                /\ workers' = [workers EXCEPT ![w] =
                      IF res = "raise" THEN [logged EXCEPT !.pc = "ended"]
                      ELSE WorkerAfterAddon(logged, Succeeded(res))]
         ELSE \E res \in Outcomes(me.log, ip, "rm", a) :
                /\ faults' = Charge(res)
                /\ remoteFS' = IF res = "ok"
                               THEN [remoteFS EXCEPT ![ip] = RmRf(RemoteAddons \o <<a>>, @)]
                               ELSE remoteFS
                /\ workers' = [workers EXCEPT ![w] =
                      [me EXCEPT !.log = Append(me.log, Entry(ip, "rm", a, res)),
                                 !.pc = IF res = "raise" THEN "ended" ELSE "addon_scp"]]
      /\ UNCHANGED Others

\* push_addon_to_satellite, scp branch after the rm.
WorkerAddonScp ==
    \E w \in WorkerIds :
      LET me == workers[w]
          ip == WorkerAddress(w)
          a == ADDONS_TO_PUSH[me.addon_idx] IN
      /\ me.pc = "addon_scp"
      /\ \E res \in SourceOutcomes(localFS.addons[a].exists, me.log, ip, "scp", a) :
           LET logged == [me EXCEPT !.log = Append(me.log, Entry(ip, "scp", a, res))] IN
           /\ faults' = Charge(res)
           /\ remoteFS' = IF res = "ok"
                          THEN [remoteFS EXCEPT ![ip] =
                                  ScpRecursive(a, localFS.addons[a].files, RemoteAddons, @)]
                          ELSE remoteFS
           /\ workers' = [workers EXCEPT ![w] =
                 IF res = "raise" THEN [logged EXCEPT !.pc = "ended"]
                 ELSE WorkerAfterAddon(logged, Succeeded(res))]
      /\ UNCHANGED Others

\* success_count += 1, first half: the value of success_count is read.
WorkerLoad ==
    \E w \in WorkerIds :
      LET me == workers[w] IN
      /\ me.pc = "load"
      /\ workers' = [workers EXCEPT ![w] = [me EXCEPT !.reg = success_count, !.pc = "store"]]
      /\ UNCHANGED <<Others, remoteFS, faults>>

\* success_count += 1, second half: the value read plus one is assigned.
WorkerStore ==
    \E w \in WorkerIds :
      LET me == workers[w] IN
      /\ me.pc = "store"
      /\ success_count' = me.reg + 1
      /\ workers' = [workers EXCEPT ![w] =
            [me EXCEPT !.counted = TRUE,
                       !.pc = IF mode = "push_to_satellites" THEN "ended" ELSE "notify"]]
      /\ UNCHANGED <<cfgVars, envVars, remoteFS, pc, satellite_ips, idx, addon_idx,
                     use_rsync, all_pushed, ret, histVars, runs, envChanges, twin,
                     ledgerVars, faults>>

\* ssh root@ip 'kodi-send --action="Notification(...)"'  (result not looked at)
WorkerNotify ==
    \E w \in WorkerIds :
      LET me == workers[w]
          ip == WorkerAddress(w) IN
      /\ me.pc = "notify"
      /\ \E res \in Outcomes(me.log, ip, "notify", "") :
           /\ faults' = Charge(res)
           /\ workers' = [workers EXCEPT ![w] =
                 [me EXCEPT !.log = Append(me.log, Entry(ip, "notify", "", res)),
                            !.pc = IF res = "raise" THEN "ended" ELSE "restart"]]
      /\ UNCHANGED <<Others, remoteFS>>

\* ssh root@ip 'nohup sh -c "sleep 10 && killall -9 kodi.bin" > /dev/null 2>&1 &'
WorkerRestart ==
    \E w \in WorkerIds :
      LET me == workers[w]
          ip == WorkerAddress(w) IN
      /\ me.pc = "restart"
      /\ \E res \in Outcomes(me.log, ip, "restart", "") :
           /\ faults' = Charge(res)
           /\ workers' = [workers EXCEPT ![w] =
                 [me EXCEPT !.log = Append(me.log, Entry(ip, "restart", "", res)),
                            !.pc = "ended"]]
      /\ UNCHANGED <<Others, remoteFS>>

\* Every iteration has ended: the records are taken in list order and the
\* function goes on with the lines after the loop.
Join ==
    /\ pc = "workers"
    /\ \A w \in WorkerIds : workers[w].pc = "ended"
    /\ outcomes' = [k \in WorkerIds |->
                      Summarize(WorkerAddress(k), workers[k].log, workers[k].counted)]
    /\ pc' = "summary"
    /\ UNCHANGED <<cfgVars, envVars, remoteFS, loopVars, ret, log, counted, checks,
                   notes, ips_read, sent, budgetVars, faults>>

NextWorkers ==
    \/ Next
    \/ Fork
    \/ WorkerProbe
    \/ WorkerMkdir
    \/ WorkerSettings
    \/ WorkerWhich
    \/ WorkerCache
    \/ WorkerAddon
    \/ WorkerAddonScp
    \/ WorkerLoad
    \/ WorkerStore
    \/ WorkerNotify
    \/ WorkerRestart
    \/ Join

\* The loop of a run is walked one address after another or handed to one
\* worker per address.
SpecWorkers == InitFew /\ [][NextWorkers]_vars

\* What one call of a node's log did to the files of the satellite.
ApplyEntry(e, fs) ==
    IF e.res # "ok" THEN fs
    ELSE IF e.cmd = "mkdir" THEN MkdirP(RemoteData \o <<"cache">>, fs)
    ELSE IF e.cmd = "rm" THEN RmRf(RemoteAddons \o <<e.unit>>, fs)
    ELSE IF e.cmd = "scp" /\ e.unit = "settings2.xml" THEN ScpFile("settings2.xml", RemoteData, fs)
    ELSE IF e.cmd = "scp" /\ e.unit = "cache" THEN ScpRecursive("cache", localFS.cache.files, RemoteData, fs)
    ELSE IF e.cmd = "rsync" /\ e.unit = "cache" THEN RsyncDelete(localFS.cache.files, RemoteData, fs)
    ELSE IF e.cmd = "scp" THEN ScpRecursive(e.unit, localFS.addons[e.unit].files, RemoteAddons, fs)
    ELSE IF e.cmd = "rsync" THEN RsyncDelete(localFS.addons[e.unit].files, RemoteAddons, fs)
    ELSE fs

\* The files of a satellite after the calls of the log, and nothing else,
\* were made on what it held before the run.
RECURSIVE RemoteAfter(_)
RemoteAfter(l) ==
    IF l = <<>> THEN InitialRemote
    ELSE ApplyEntry(Last(l), RemoteAfter(SubSeq(l, 1, Len(l) - 1)))

\* Whether a node is counted follows from its own calls alone.
CountedByRecord(o) == o.reachable /\ ~o.failed /\ o.transferred = PresentUnits

CountedNodes == Cardinality({k \in Finished : outcomes[k].counted})

InitialLocal == [settings2 |-> TRUE, cache |-> Tree(CacheFiles),
                 addons |-> [a \in AddonNames |-> Tree(AddonFiles[a])]]

\* Every call of a node goes to the node's own address; the local sources
\* are never written; the files of a satellite are what the calls of its own
\* node made of them, whatever the other nodes did meanwhile; whether a node
\* is counted follows from its own calls.
NodeIsolation ==
    /\ localFS = InitialLocal
    /\ \A k \in 1..Len(log) : log[k].ip = log[1].ip
    /\ InHand => log[1].ip = Cur /\ remoteFS[Cur] = RemoteAfter(log)
    /\ \A w \in WorkerIds :
         /\ \A k \in 1..Len(workers[w].log) : workers[w].log[k].ip = satellite_ips[w]
         /\ remoteFS[satellite_ips[w]] = RemoteAfter(workers[w].log)
         /\ workers[w].pc = "ended" =>
              workers[w].counted =
                 CountedByRecord(Summarize(satellite_ips[w], workers[w].log, workers[w].counted))
    /\ \A a \in Addresses :
         (\A k \in 1..Len(satellite_ips) : satellite_ips[k] # a) =>
             remoteFS[a] = InitialRemote
    /\ \A k \in Finished :
         /\ outcomes[k].ip = satellite_ips[k]
         /\ outcomes[k].counted = CountedByRecord(outcomes[k])

C24_NotifyThenRestart ==
    /\ \A k \in 1..Len(log) :
         /\ log[k].cmd = "notify" =>
              /\ \A j \in 1..Len(log) : log[j].cmd \in TransferCmds => log[j].res = "ok"
              /\ \A u \in PresentUnits : \E j \in 1..(k - 1) :
                   log[j].cmd \in TransferCmds /\ log[j].unit = u
              /\ \A j \in 1..(k - 1) : log[j].cmd \notin {"notify", "restart"}
              /\ pc # "notify"
         /\ log[k].cmd = "restart" =>
              /\ k > 1 /\ k = Len(log)
              /\ log[k - 1].cmd = "notify" /\ log[k - 1].res # "raise"
    /\ pc \in {"notify", "restart"} => counted /\ mode = "satellite_alignment"
    /\ pc = "restart" => Last(log).cmd = "notify"
    /\ (log # <<>> /\ Last(log).cmd = "restart") =>
         /\ pc \in {"probe", "summary", "done"}
         /\ outcomes # <<>>
         /\ Last(outcomes).ip = Last(log).ip
         /\ Last(outcomes).counted
         /\ Last(outcomes).restarts = (IF Last(log).res = "raise" THEN 0 ELSE 1)
         /\ Count(log, "notify") = 1

\* The restart call of a node exited non-zero; the restart is recorded, the
\* node stays counted and the probe of the next node is the next step.
C24_Witness ==
    /\ pc = "probe"
    /\ log # <<>>
    /\ Last(log).cmd = "restart" /\ Last(log).res = "fail"
    /\ Last(outcomes).restarts = 1
    /\ Last(outcomes).counted

\* -------------------------------------------- EpisodeHistory, continued
ShowNames == {"Show A", "Show B"}

Episodes == {"s01e01.mkv", "s01e02.mkv", "s01e03.mkv"}

SeqsUpTo(S, n) == UNION {[1..k -> S] : k \in 0..n}

\* mark_episodes_played appends a path only if it is not in the list yet.
PlayedLists ==
    {q \in SeqsUpTo(Episodes, MaxPlayed) :
        \A i, j \in 1..Len(q) : i # j => q[i] # q[j]}

\* The entry of a show as mark_episodes_played and reset_show write it.
ShowEntries ==
    [played_episodes : PlayedLists, total_available : {0},
     current_cycle_start : {"earlier"}, times_cycled : 0..MaxCycles]

ShowDicts == UNION {[D -> ShowEntries] : D \in SUBSET ShowNames}

\* The object after construction and any number of earlier calls: loaded
\* with some shows, or not loaded yet with a file that will be read.
Histories ==
    {[loaded |-> TRUE, shows |-> d, file |-> NoFile] : d \in ShowDicts}
    \cup {[loaded |-> FALSE, shows |-> NoShows, file |-> [state |-> "ok", shows |-> d]] :
             d \in ShowDicts}
    \cup {[loaded |-> FALSE, shows |-> NoShows, file |-> [state |-> st, shows |-> NoShows]] :
             st \in {"missing", "corrupt", "nodir"}}

\* load(): nothing when loaded; False without loading when the directory
\* cannot be made; a fresh start when there is no file or it cannot be
\* parsed; else self.data = json.load(f).
load(h) ==
    IF h.loaded THEN h
    ELSE IF h.file.state = "nodir" THEN h
    ELSE IF h.file.state \in {"missing", "corrupt"}
    THEN [h EXCEPT !.loaded = TRUE, !.shows = NoShows]
    ELSE [h EXCEPT !.loaded = TRUE, !.shows = h.file.shows]

\* if show_name not in shows: return []
\* return shows[show_name].get("played_episodes", [])
get_played_episodes(shows, show_name) ==
    IF show_name \notin DOMAIN shows THEN <<>>
    ELSE shows[show_name].played_episodes

\* ep not in played
NotIn(ep, played) == \A k \in 1..Len(played) : played[k] # ep

\* [ep for ep in all_episodes if ep not in played]
RECURSIVE Unplayed(_, _)
Unplayed(all_episodes, played) ==
    IF all_episodes = <<>> THEN <<>>
    ELSE IF NotIn(Head(all_episodes), played)
    THEN <<Head(all_episodes)>> \o Unplayed(Tail(all_episodes), played)
    ELSE Unplayed(Tail(all_episodes), played)

\* The entry of a new show is written whether the show is tracked or not.
reset_show_fresh(shows, show_name, total_available) ==
    [s \in DOMAIN shows \cup {show_name} |->
        IF s = show_name
        THEN [played_episodes |-> <<>>, total_available |-> total_available,
              current_cycle_start |-> "now", times_cycled |-> 0]
        ELSE shows[s]]

\* reset_show(show_name, total_available)
reset_show(shows, show_name, total_available) ==
    IF show_name \notin DOMAIN shows
    THEN [s \in DOMAIN shows \cup {show_name} |->
            IF s = show_name
            THEN [played_episodes |-> <<>>, total_available |-> total_available,
                  current_cycle_start |-> "now", times_cycled |-> 0]
            ELSE shows[s]]
    ELSE [shows EXCEPT ![show_name] =
            [played_episodes |-> <<>>, total_available |-> total_available,
             current_cycle_start |-> "now", times_cycled |-> @.times_cycled + 1]]

\* The fleet scripts are not running.
FleetIdle ==
    /\ mode = "push_to_satellites"
    /\ setting = [Enable |-> FALSE, SlaveIP |-> [i \in Slots |-> ""]]
    /\ rsync = FALSE
    /\ localFS = [settings2 |-> TRUE, cache |-> Tree(CacheFiles),
                  addons |-> [a \in AddonNames |-> Tree(AddonFiles[a])]]
    /\ remoteFS = [a \in Addresses |-> InitialRemote]
    /\ RunStart
    /\ sent = NoSent
    /\ runs = 1
    /\ envChanges = 0
    /\ twin = NoTwin
    /\ workers = <<>>

InitHistory ==
    /\ FleetIdle
    /\ history \in Histories
    /\ call = NoCall

\* get_available_episodes(show_name, all_episodes), called once on the
\* object drawn at the start.
GetAvailableEpisodes ==
    \E show_name \in ShowNames, all_episodes \in SeqsUpTo(Episodes, MaxEpisodes) :
      LET h == load(history)
          played == get_played_episodes(h.shows, show_name)
          available == Unplayed(all_episodes, played)
          exhausted == Len(available) = 0 /\ Len(all_episodes) > 0
      IN /\ ~call.made
         /\ history' = IF exhausted
                       THEN [h EXCEPT !.shows = reset_show(h.shows, show_name, Len(all_episodes))]
                       ELSE h
         /\ call' = [show_name |-> show_name, all_episodes |-> all_episodes,
                     available |-> IF exhausted THEN all_episodes ELSE available,
                     before |-> h.shows, exhausted |-> exhausted, made |-> TRUE]
         /\ UNCHANGED <<cfgVars, envVars, remoteFS, pc, loopVars, ret, histVars,
                        runs, envChanges, twin, workers, faults>>

NextHistory == GetAvailableEpisodes

SpecHistory == InitHistory /\ [][NextHistory]_vars

\* The played list of the show of the call, before the call.
PlayedBefore ==
    IF call.show_name \in DOMAIN call.before
    THEN call.before[call.show_name].played_episodes
    ELSE <<>>

IsPlayed(ep) == \E k \in 1..Len(PlayedBefore) : PlayedBefore[k] = ep

\* C25: get_available_episodes(show, all_episodes) never returns an empty
\* list for a non-empty all_episodes; when an episode of all_episodes is
\* unplayed it returns the unplayed episodes of all_episodes in their order
\* and leaves the history as it was; when all of them are played it empties
\* the played list of the show, adds exactly 1 to its times_cycled, leaves
\* every other show as it was and returns all_episodes.
C25_AvailableEpisodes ==
    call.made =>
        LET all == call.all_episodes
            someUnplayed == \E i \in 1..Len(all) : ~IsPlayed(all[i])
        IN /\ Len(all) > 0 => Len(call.available) > 0
           /\ someUnplayed =>
                /\ call.available = SelectSeq(all, LAMBDA ep : ~IsPlayed(ep))
                /\ history.shows = call.before
                /\ ~call.exhausted
           /\ (Len(all) > 0 /\ ~someUnplayed) =>
                /\ call.exhausted
                /\ call.available = all
                /\ DOMAIN history.shows = DOMAIN call.before
                /\ call.show_name \in DOMAIN call.before
                /\ history.shows[call.show_name].played_episodes = <<>>
                /\ history.shows[call.show_name].times_cycled
                     = call.before[call.show_name].times_cycled + 1
                /\ \A s \in DOMAIN call.before \ {call.show_name} :
                     history.shows[s] = call.before[s]
           /\ Len(all) = 0 => call.available = <<>> /\ history.shows = call.before

\* Both episodes of the list were played, in the other order, and the show
\* had been cycled before: it is reset while the other show keeps its list.
C25_Witness ==
    /\ call.made /\ call.exhausted
    /\ Len(call.all_episodes) = 2
    /\ call.all_episodes[1] # call.all_episodes[2]
    /\ PlayedBefore = <<call.all_episodes[2], call.all_episodes[1]>>
    /\ history.shows[call.show_name].times_cycled = 2
    /\ \E s \in DOMAIN history.shows :
         s # call.show_name /\ history.shows[s].played_episodes # <<>>

\* One of two episodes was played, in a history read from its file by this
\* call: the other one is returned.
C25_WitnessUnplayed ==
    /\ call.made /\ ~call.exhausted
    /\ Len(call.all_episodes) = 2
    /\ Len(call.available) = 1
    /\ history.loaded
    /\ history.file.state = "ok"

\* C26 as claimed: in push_to_satellites, a node whose settings2.xml and
\* cache transfers both exited 0 still holds the settings2.xml in its
\* addon-data folder when its iteration has ended, with rsync and with scp.
C26_SettingsSurviveCache ==
    mode = "push_to_satellites" =>
        \A k \in Finished :
            ({"settings2.xml", "cache"} \subseteq outcomes[k].transferred) =>
                RemoteData \o <<"settings2.xml">> \in remoteFS[outcomes[k].ip]

\* C27 as claimed: in satellite_alignment with both addon folders present
\* locally, a counted node to which both were transferred holds the files of
\* both where the tool of the run puts them.
C27_EveryBundleKept ==
    (mode = "satellite_alignment" /\ PresentUnits = AllUnits) =>
        \A k \in Finished :
            (outcomes[k].counted /\ outcomes[k].transferred = AllUnits) =>
                \A a \in AddonNames :
                    UnitPaths(outcomes[k], a) \subseteq remoteFS[outcomes[k].ip]

\* The k-th call of the log is the copy of an addon folder that exited
\* non-zero.
FailedCopy(k) ==
    /\ log[k].cmd = "scp"
    /\ log[k].unit \in AddonNames
    /\ log[k].res = "fail"

\* Nothing of the addon is on the satellite.
BundleAbsent(ip, a) ==
    /\ RemoteAddons \o <<a>> \notin remoteFS[ip]
    /\ Under(RemoteAddons \o <<a>>, remoteFS[ip]) = {}

\* The addon is on the satellite as it was before the run.
BundleOld(ip, a) ==
    /\ RemoteAddons \o <<a>> \in remoteFS[ip]
    /\ Under(RemoteAddons \o <<a>>, remoteFS[ip]) = {RemoteAddons \o <<a, "old.py">>}

\* The node of the log is not counted and gets neither notification nor
\* restart.
EndsPartial ==
    /\ ~counted
    /\ \A j \in 1..Len(log) : log[j].cmd \notin {"notify", "restart"}
    /\ pc \notin {"notify", "restart"}
    /\ ~InHand =>
         /\ Last(outcomes).ip = log[1].ip
         /\ ~Last(outcomes).counted
         /\ Last(outcomes).restarts = 0

EndedReached ==
    /\ mode = "satellite_alignment"
    /\ pc \in {"probe", "summary", "done"}
    /\ log # <<>>
    /\ log[1].res = "ok"

\* The positions in the log of the transfers of an addon.
TransfersOf(a) == {k \in 1..Len(log) : log[k].cmd \in TransferCmds /\ log[k].unit = a}

\* push_addon_to_satellite got as far as its transfer for the addon, or
\* returned at once because the local folder is absent.
Attempted(a) == TransfersOf(a) # {} \/ ~localFS.addons[a].exists

\* C29 as claimed: for every reached node every addon of ADDONS_TO_PUSH is
\* attempted, in list order, whatever became of the addons before it.
C29_EveryBundleAttempted ==
    EndedReached =>
        /\ \A a \in AddonNames : Attempted(a)
        /\ \A i, j \in 1..Len(ADDONS_TO_PUSH) : i < j =>
             \A m \in TransfersOf(ADDONS_TO_PUSH[i]), n \in TransfersOf(ADDONS_TO_PUSH[j]) : m < n

\* C29 as amended: a transfer that exits non-zero makes the node a partial
\* failure and the next addon is attempted all the same, in list order and
\* once each; an addon whose local folder is absent is skipped without a
\* call; but a call that raises ends the iteration of the node at once, and
\* the addons after it are not attempted.
C29_EveryBundleUnlessRaised ==
    /\ EndedReached =>
         /\ (\A k \in 1..Len(log) : log[k].res # "raise") =>
               \A a \in AddonNames : Attempted(a)
         /\ \A k \in 1..Len(log) : log[k].res = "raise" => k = Len(log)
         /\ \A a \in AddonNames :
              /\ Cardinality(TransfersOf(a)) <= 1
              /\ ~localFS.addons[a].exists =>
                   \A k \in 1..Len(log) : log[k].unit # a
         /\ \A i, j \in 1..Len(ADDONS_TO_PUSH) : i < j =>
              \A m \in TransfersOf(ADDONS_TO_PUSH[i]), n \in TransfersOf(ADDONS_TO_PUSH[j]) : m < n
         /\ (\E k \in 1..Len(log) : log[k].cmd \in TransferCmds /\ log[k].res = "fail") =>
              ~Last(outcomes).counted /\ Last(outcomes).restarts = 0
    /\ (mode = "satellite_alignment" /\ InHand) =>
         \A k \in 1..Len(log) :
            (log[k].cmd \in TransferCmds /\ log[k].res = "fail") =>
               /\ ~all_pushed
               /\ (log[k].unit # Last(ADDONS_TO_PUSH) /\ k = Len(log)) => pc = "addon"

\* The transfer of the first addon failed and the second addon was
\* transferred to the node all the same; the node is not counted.
C29_Witness ==
    /\ EndedReached
    /\ \E m \in TransfersOf(ADDONS_TO_PUSH[1]), n \in TransfersOf(ADDONS_TO_PUSH[2]) :
         log[m].res = "fail" /\ log[n].res = "ok"
    /\ ~Last(outcomes).counted

\* The position of the settings2.xml transfer in the log, 0 if there is none.
SettingsAt ==
    IF \E k \in 1..Len(log) : IsSettingsPush(log[k])
    THEN CHOOSE k \in 1..Len(log) : IsSettingsPush(log[k])
    ELSE 0

\* C30: in push_to_satellites the lookup of rsync and the cache transfer
\* are made for a node only right after its settings2.xml transfer exited
\* 0; a settings2.xml transfer that did not exit 0 is the last call of the
\* node: the node is not counted, keeps its old cache, and the next step is
\* the probe of the next node or the summary.
C30_CacheOnlyAfterSettings ==
    mode = "push_to_satellites" =>
        /\ \A k \in 1..Len(log) :
             /\ log[k].cmd = "which" =>
                  k > 1 /\ IsSettingsPush(log[k - 1]) /\ log[k - 1].res = "ok"
             /\ IsCachePush(log[k]) =>
                  /\ k > 2 /\ log[k - 1].cmd = "which"
                  /\ IsSettingsPush(log[k - 2]) /\ log[k - 2].res = "ok"
        /\ (SettingsAt # 0 /\ log[SettingsAt].res # "ok") =>
             /\ SettingsAt = Len(log)
             /\ pc \in {"probe", "summary", "done"}
             /\ ~counted
             /\ Last(outcomes).ip = log[1].ip
             /\ ~Last(outcomes).counted
             /\ Last(outcomes).transferred = {}
             /\ "which" \notin Last(outcomes).called
             /\ RemoteData \o <<"cache", "old.m3u">> \in remoteFS[log[1].ip]
             /\ Len(checks) < Len(outcomes)

\* The settings2.xml transfer to the first node failed; the second node
\* is being probed next, and the first got neither the lookup nor the cache.
C30_Witness ==
    /\ mode = "push_to_satellites"
    /\ pc = "probe"
    /\ Len(outcomes) = 1
    /\ SettingsAt # 0
    /\ log[SettingsAt].res = "fail"
    /\ checks = <<>>
====
